---- MODULE Spec2Model ----
(***************************************************************************)
(* A model of build_factors.py: the monthly-block extractor                *)
(* (_read_ff_zip_monthly), the column harmonizers (_harmonize_five,        *)
(* _harmonize_mom), the aligner/joiner (_align_and_join_with_diagnostics,  *)
(* _ensure_all_cols), the writer (_write_artifacts) and the driver.        *)
(*                                                                         *)
(* Text is modelled character by character: a string is a sequence of      *)
(* one-character strings, a line is a string, a file is a sequence of      *)
(* lines.  Python indexes from 0, the model from 1; 0 stands for None.     *)
(* A date is <<year, month, day>>.  A cell of a table is <<x>> for the     *)
(* number x and <<>> (NA) for the missing value (NaN / pd.NA).             *)
(***************************************************************************)
EXTENDS Integers, Sequences, FiniteSets, TLC

(* ------------------------------------------------------------------ *)
(* Bounds of the model                                                 *)
(* ------------------------------------------------------------------ *)
\* longest file (in lines) before a long run of blank lines is inserted
MaxLines == 4
\* most rows of a table handed to the aligner/joiner
MaxRows == 2
\* most columns of a table handed to the momentum harmonizer
MaxCols == 3

(* ------------------------------------------------------------------ *)
(* Characters and strings                                              *)
(* ------------------------------------------------------------------ *)
NA == <<>>

Num(x) == <<x>>

Whitespace == {" ", "\t"}

Digits == {"0", "1", "2", "3", "4", "5", "6", "7", "8", "9"}

DigitVal(c) ==
  CASE c = "0" -> 0 [] c = "1" -> 1 [] c = "2" -> 2 [] c = "3" -> 3
    [] c = "4" -> 4 [] c = "5" -> 5 [] c = "6" -> 6 [] c = "7" -> 7
    [] c = "8" -> 8 [] c = "9" -> 9

SetMin(S) == CHOOSE x \in S : \A y \in S : x <= y

SetMax(S) == CHOOSE x \in S : \A y \in S : y <= x

\* str.strip(): the string without its leading and trailing whitespace
Strip(s) ==
  LET keep == {i \in 1..Len(s) : s[i] \notin Whitespace}
  IN  IF keep = {} THEN <<>> ELSE SubSeq(s, SetMin(keep), SetMax(keep))

\* str.lower() / str.upper() on the letters the labels use
LowerChar(c) ==
  CASE c = "M" -> "m" [] c = "O" -> "o" [] c = "W" -> "w" [] c = "L" -> "l"
    [] c = "U" -> "u" [] c = "D" -> "d" [] c = "S" -> "s" [] c = "B" -> "b"
    [] c = "H" -> "h" [] c = "R" -> "r" [] c = "F" -> "f" [] c = "C" -> "c"
    [] c = "A" -> "a" [] c = "K" -> "k" [] c = "T" -> "t"
    [] OTHER -> c

UpperChar(c) ==
  CASE c = "m" -> "M" [] c = "o" -> "O" [] c = "w" -> "W" [] c = "l" -> "L"
    [] c = "u" -> "U" [] c = "d" -> "D" [] c = "s" -> "S" [] c = "b" -> "B"
    [] c = "h" -> "H" [] c = "r" -> "R" [] c = "f" -> "F" [] c = "c" -> "C"
    [] c = "a" -> "A" [] c = "k" -> "K" [] c = "t" -> "T"
    [] OTHER -> c

Lower(s) == [i \in 1..Len(s) |-> LowerChar(s[i])]

Upper(s) == [i \in 1..Len(s) |-> UpperChar(s[i])]

\* `sub in s`
Contains(s, sub) ==
  \E i \in 1..(Len(s) - Len(sub) + 1) : SubSeq(s, i, i + Len(sub) - 1) = sub

\* str.split(sep): the fields of s between the separators
RECURSIVE Split(_, _)
Split(s, sep) ==
  LET at == {i \in 1..Len(s) : s[i] = sep}
  IN  IF at = {} THEN <<s>>
      ELSE <<SubSeq(s, 1, SetMin(at) - 1)>>
             \o Split(SubSeq(s, SetMin(at) + 1, Len(s)), sep)

\* the decimal value of a string of digits
RECURSIVE DigitsVal(_)
DigitsVal(s) ==
  IF Len(s) = 0 THEN 0
  ELSE 10 * DigitsVal(SubSeq(s, 1, Len(s) - 1)) + DigitVal(s[Len(s)])

AllDigits(s) == Len(s) > 0 /\ \A i \in 1..Len(s) : s[i] \in Digits

\* all sequences over S of length lo..hi
SeqsUpTo(S, lo, hi) == UNION {[1..n -> S] : n \in lo..hi}

(* ------------------------------------------------------------------ *)
(* The month-token pattern (line 41)                                   *)
(*   ^\s*([12]\d{3})\s*[-/ ]?\s*(\d{2})\s*([,;]|\s|$)   with re.match  *)
(* computed as the set of positions the match can have reached.        *)
(* ------------------------------------------------------------------ *)
\* \s* from any position of P
WsStar(s, P) ==
  {j \in 1..(Len(s) + 1) :
     \E i \in P : i <= j /\ \A k \in i..(j - 1) : s[k] \in Whitespace}

\* one character of class C from any position of P
OneOf(s, P, C) == {i + 1 : i \in {p \in P : p <= Len(s) /\ s[p] \in C}}

YyyymmMatch(s) ==
  LET p1  == WsStar(s, {1})
      p5  == OneOf(s, OneOf(s, OneOf(s, OneOf(s, p1, {"1", "2"}), Digits), Digits), Digits)
      p6  == WsStar(s, p5)
      p7  == p6 \cup OneOf(s, p6, {"-", "/", " "})
      p8  == WsStar(s, p7)
      p10 == OneOf(s, OneOf(s, p8, Digits), Digits)
      p11 == WsStar(s, p10)
  IN  \E i \in p11 :
        \/ i = Len(s) + 1
        \/ i <= Len(s) /\ s[i] \in ({",", ";"} \cup Whitespace)

\* first = ln.split(",")[0].strip()   (lines 46, 65)
FirstField(ln) == Strip(Split(ln, ",")[1])

\* lines 46-47 and 65-66: the line's first field is non-empty and matches
IsMonthlyRow(ln) == FirstField(ln) # <<>> /\ YyyymmMatch(FirstField(ln))

\* line 56: lines[j].strip() is non-empty
IsNonBlank(ln) == Strip(ln) # <<>>

(* ------------------------------------------------------------------ *)
(* Dates                                                               *)
(* ------------------------------------------------------------------ *)
IsLeap(y) == (y % 4 = 0 /\ y % 100 # 0) \/ y % 400 = 0

DaysInMonth(y, m) ==
  IF m = 2 THEN (IF IsLeap(y) THEN 29 ELSE 28)
  ELSE IF m \in {4, 6, 9, 11} THEN 30 ELSE 31

\* + pd.offsets.MonthEnd(0) (line 83), .to_period("M").to_timestamp("M")
\* (lines 84, 182): the last day of the date's month
MonthEnd(d) == <<d[1], d[2], DaysInMonth(d[1], d[2])>>

DateLT(a, b) ==
  \/ a[1] < b[1]
  \/ a[1] = b[1] /\ a[2] < b[2]
  \/ a[1] = b[1] /\ a[2] = b[2] /\ a[3] < b[3]

(* ------------------------------------------------------------------ *)
(* Tables: [cols |-> sequence of labels,                               *)
(*          rows |-> sequence of [date |-> d, vals |-> values]]        *)
(* with vals[i] the value in column cols[i]; the date is the index.    *)
(* ------------------------------------------------------------------ *)
\* keep="first" in place of keep="last"
KeepFirst(rows) ==
  LET keep(i) == \A j \in 1..(i - 1) : rows[j].date # rows[i].date
      F[i \in 0..Len(rows)] ==
        IF i = 0 THEN <<>>
        ELSE IF keep(i) THEN Append(F[i - 1], rows[i]) ELSE F[i - 1]
  IN  F[Len(rows)]

\* df[~df.index.duplicated(keep="last")] (lines 89, 185): a row stays
\* unless a later row has its date; the order of the rows is kept
KeepLast(rows) ==
  LET keep(i) == \A j \in (i + 1)..Len(rows) : rows[j].date # rows[i].date
      F[i \in 0..Len(rows)] ==
        IF i = 0 THEN <<>>
        ELSE IF keep(i) THEN Append(F[i - 1], rows[i]) ELSE F[i - 1]
  IN  F[Len(rows)]

\* .sort_index() (lines 89, 185) of rows with distinct dates: ascending
RECURSIVE SortIndex(_)
SortIndex(rows) ==
  IF rows = <<>> THEN <<>>
  ELSE LET i == CHOOSE k \in 1..Len(rows) :
                  \A j \in 1..Len(rows) : ~DateLT(rows[j].date, rows[k].date)
       IN  <<rows[i]>>
             \o SortIndex(SubSeq(rows, 1, i - 1) \o SubSeq(rows, i + 1, Len(rows)))

(* ------------------------------------------------------------------ *)
(* _read_ff_zip_monthly (lines 40-90), from `lines` on                 *)
(* ------------------------------------------------------------------ *)
\* line 55: range(first_row - 1, max(-1, first_row - 60), -1)
HeaderWindow == 60

\* first_row initialised to the first line in place of None
FirstRowDefault(lines) ==
  LET hits == {i \in 1..Len(lines) : YyyymmMatch(FirstField(lines[i]))}
  IN  IF hits = {} THEN 1 ELSE SetMin(hits)

\* lines 44-49: the first line whose first field matches; 0 for None
FirstRow(lines) ==
  LET hits == {i \in 1..Len(lines) : YyyymmMatch(FirstField(lines[i]))}
  IN  IF hits = {} THEN 0 ELSE SetMin(hits)

\* a window one line shorter
HeaderIdxShort(lines, fr) ==
  LET lo   == IF fr - (HeaderWindow - 2) > 1 THEN fr - (HeaderWindow - 2) ELSE 1
      hits == {j \in lo..(fr - 1) : IsNonBlank(lines[j])}
  IN  IF hits = {} THEN 0 ELSE SetMax(hits)

\* lines 54-58: the nearest non-blank line above first_row, looking at
\* the lines first_row-1 down to first_row-(HeaderWindow-1); 0 for None
HeaderIdx(lines, fr) ==
  LET lo   == IF fr - (HeaderWindow - 1) > 1 THEN fr - (HeaderWindow - 1) ELSE 1
      hits == {j \in lo..(fr - 1) : IsNonBlank(lines[j])}
  IN  IF hits = {} THEN 0 ELSE SetMax(hits)

\* lines 64-68: the monthly rows from first_row up to the first line
\* whose first field is empty or does not match
MonthlyRun(lines, fr) ==
  LET stops == {i \in fr..Len(lines) : ~IsMonthlyRow(lines[i])}
      last  == IF stops = {} THEN Len(lines) ELSE SetMin(stops) - 1
  IN  SubSeq(lines, fr, last)

\* lines 63-68
Block(lines, h, fr) == <<lines[h]>> \o MonthlyRun(lines, fr)

\* line 81: re.match(r"^(\d{4})[-/ ]?(\d{2})$", s)
StrictYm(s) ==
  \/ Len(s) = 6 /\ AllDigits(s)
  \/ /\ Len(s) = 7
     /\ AllDigits(SubSeq(s, 1, 4))
     /\ s[5] \in {"-", "/", " "}
     /\ AllDigits(SubSeq(s, 6, 7))

DateError == <<0, 0, 0>>

\* lines 79-84 (_to_me).  pd.to_datetime("YYYY-MM") raises for a month
\* outside 01..12 (errors="raise" is the default); it does not return NaT.
\* Line 84 is reached only by tokens that match line 41's pattern but not
\* line 81's (inner runs of whitespace, text after the month); such tokens
\* are parsed by pd.to_datetime's generic parser, which is modelled as
\* raising.
ToMe(tok) ==
  LET s == Strip(tok)
      y == DigitsVal(SubSeq(s, 1, 4))
      m == DigitsVal(SubSeq(s, Len(s) - 1, Len(s)))
  IN  IF StrictYm(s)
      THEN (IF m \in 1..12 THEN MonthEnd(<<y, m, 1>>) ELSE DateError)
      ELSE DateError

\* line 76: pd.to_numeric(errors="coerce") of a field
ToNumeric(f) == IF AllDigits(Strip(f)) THEN Num(DigitsVal(Strip(f))) ELSE NA

\* lines 70-76: the block read as comma-separated text; the labels are
\* stripped (line 71), the first column is the date column, the other
\* columns are coerced to numbers
ParseRow(ln) ==
  LET f == Split(ln, ",")
  IN  [date |-> ToMe(f[1]), vals |-> [i \in 1..(Len(f) - 1) |-> ToNumeric(f[i + 1])]]

ParseCols(header) ==
  LET f == Split(header, ",")
  IN  [i \in 1..(Len(f) - 1) |-> Strip(f[i + 1])]

NoTable == [cols |-> <<>>, rows |-> <<>>]

\* The outcome of _read_ff_zip_monthly on the lines of the CSV member.
ReadFfZipMonthly(lines) ==
  LET fr   == FirstRow(lines)
      h    == HeaderIdx(lines, fr)
      blk  == Block(lines, h, fr)
      rows == [i \in 1..(Len(blk) - 1) |-> ParseRow(blk[i + 1])]
      none == [status |-> "BlockNotFound", first_row |-> 0, header_idx |-> 0,
               block |-> <<>>, df |-> NoTable]
  IN  IF fr = 0 THEN none                                         \* line 51
      ELSE IF h = 0                                               \* line 60
        THEN [none EXCEPT !.status = "HeaderNotFound", !.first_row = fr]
      ELSE IF \E i \in 1..Len(rows) : rows[i].date = DateError    \* line 86
        THEN [none EXCEPT !.status = "DateParseError", !.first_row = fr,
                          !.header_idx = h, !.block = blk]
      ELSE [status |-> "ok", first_row |-> fr, header_idx |-> h, block |-> blk,
            df |-> [cols |-> ParseCols(blk[1]),
                    rows |-> SortIndex(KeepLast(rows))]]          \* lines 87-89

(* ------------------------------------------------------------------ *)
(* Column labels                                                       *)
(* ------------------------------------------------------------------ *)
S_MKT_RF == <<"M", "K", "T", "_", "R", "F">>

S_SMB == <<"S", "M", "B">>

S_HML == <<"H", "M", "L">>

S_RMW == <<"R", "M", "W">>

S_CMA == <<"C", "M", "A">>

S_RF == <<"R", "F">>

S_Mom == <<"M", "o", "m">>

S_mom == <<"m", "o", "m">>

S_WML == <<"W", "M", "L">>

\* line 99
FiveCols == <<S_MKT_RF, S_SMB, S_HML, S_RMW, S_CMA, S_RF>>

\* lines 222, 233: required_cols
RequiredCols == <<S_MKT_RF, S_SMB, S_HML, S_RMW, S_CMA, S_Mom, S_RF>>

\* lines 94-97: the rename map
RenameFive(c) ==
  IF c \in {<<"M", "k", "t", "-", "R", "F">>, <<"M", "K", "T", "-", "R", "F">>,
            <<"M", "k", "t", "_", "R", "F">>}
  THEN S_MKT_RF ELSE c

Range(f) == {f[i] : i \in DOMAIN f}

\* the positions of the columns labelled c, ascending
RECURSIVE Ascending(_)
Ascending(S) ==
  IF S = {} THEN <<>> ELSE <<SetMin(S)>> \o Ascending(S \ {SetMin(S)})

ColsNamed(cols, c) == Ascending({i \in 1..Len(cols) : cols[i] = c})

\* df[want] for a list of labels: for each label in turn, every column
\* that carries it (the caller checks that each label is present)
RECURSIVE Positions(_, _)
Positions(cols, want) ==
  IF want = <<>> THEN <<>>
  ELSE ColsNamed(cols, Head(want)) \o Positions(cols, Tail(want))

SelectCols(df, want) ==
  LET pos == Positions(df.cols, want)
  IN  [cols |-> [i \in 1..Len(pos) |-> df.cols[pos[i]]],
       rows |-> [r \in 1..Len(df.rows) |->
                  [date |-> df.rows[r].date,
                   vals |-> [i \in 1..Len(pos) |-> df.rows[r].vals[pos[i]]]]]]

\* _harmonize_five (lines 92-100)
HarmonizeFive(df) ==
  LET renamed == [df EXCEPT !.cols = [i \in 1..Len(df.cols) |-> RenameFive(df.cols[i])]]
      keep    == SelectSeq(FiveCols, LAMBDA c : c \in Range(renamed.cols))
  IN  SelectCols(renamed, keep)

\* lines 116-130: the momentum column, by priority; 0 for None
MomCol(cols) ==
  LET exact == {i \in 1..Len(cols) : Strip(cols[i]) = S_Mom}
      has   == {i \in 1..Len(cols) : Contains(Lower(Strip(cols[i])), S_mom)}
      wml   == {i \in 1..Len(cols) : Upper(Strip(cols[i])) = S_WML}
  IN  IF exact # {} THEN SetMin(exact)
      ELSE IF has # {} THEN SetMin(has)
      ELSE IF wml # {} THEN SetMin(wml)
      ELSE 0

\* lines 135-137: the column is renamed only when its stripped label is
\* not "Mom"; rename(columns={mom_col: "Mom"}) renames every column that
\* carries the label
RenameMom(cols, k) ==
  IF Strip(cols[k]) # S_Mom
  THEN [i \in 1..Len(cols) |-> IF cols[i] = cols[k] THEN S_Mom ELSE cols[i]]
  ELSE cols

\* _harmonize_mom (lines 102-140).  out[["Mom"]] raises KeyError when no
\* column is labelled exactly "Mom".
HarmonizeMom(df) ==
  LET k   == MomCol(df.cols)
      out == [df EXCEPT !.cols = RenameMom(df.cols, k)]
  IN  IF k = 0
        THEN [status |-> "MomentumColumnNotFound", mom_col |-> 0, df |-> NoTable]
      ELSE IF S_Mom \notin Range(out.cols)
        THEN [status |-> "KeyError", mom_col |-> k, df |-> NoTable]
      ELSE [status |-> "ok", mom_col |-> k, df |-> SelectCols(out, <<S_Mom>>)]

(* ------------------------------------------------------------------ *)
(* _align_and_join_with_diagnostics (lines 174-213)                    *)
(* ------------------------------------------------------------------ *)
\* the dates left as they are: de-duplicated and sorted, not floored
MeNoFloor(df) == [df EXCEPT !.rows = SortIndex(KeepLast(df.rows))]

\* lines 181-186 (_me)
Me(df) ==
  [df EXCEPT !.rows =
     SortIndex(KeepLast([i \in 1..Len(df.rows) |->
                           [df.rows[i] EXCEPT !.date = MonthEnd(df.rows[i].date)]]))]

Dates(df) == {df.rows[i].date : i \in 1..Len(df.rows)}

\* line 194
OverlapLen(a, b) == Cardinality(Dates(a) \cap Dates(b))

\* how="inner" in place of how="left"
InnerJoin(left, right) ==
  LET at(d)  == CHOOSE j \in 1..Len(right.rows) : right.rows[j].date = d
      common == SelectSeq(left.rows, LAMBDA r : r.date \in {right.rows[j].date : j \in 1..Len(right.rows)})
  IN  [cols |-> left.cols \o right.cols,
       rows |-> [r \in 1..Len(common) |->
                  [date |-> common[r].date,
                   vals |-> common[r].vals \o right.rows[at(common[r].date)].vals]]]

\* line 206: left.join(right, how="left") of tables with distinct dates:
\* every row of left, in left's order, with right's values at the row's
\* date, or NA in each of right's columns when right has no such row
LeftJoin(left, right) ==
  LET at(d) == CHOOSE j \in 1..Len(right.rows) : right.rows[j].date = d
      add(d) == IF d \in Dates(right) THEN right.rows[at(d)].vals
                ELSE [i \in 1..Len(right.cols) |-> NA]
  IN  [cols |-> left.cols \o right.cols,
       rows |-> [r \in 1..Len(left.rows) |->
                  [date |-> left.rows[r].date,
                   vals |-> left.rows[r].vals \o add(left.rows[r].date)]]]

\* lines 146-148: one more column, NA in every row
AddNaCol(df, c) ==
  [cols |-> Append(df.cols, c),
   rows |-> [r \in 1..Len(df.rows) |->
              [df.rows[r] EXCEPT !.vals = Append(df.rows[r].vals, NA)]]]

\* the missing columns added, the columns left in the order they have
EnsureAllColsUnordered(df, ordered_cols) ==
  LET F[n \in 0..Len(ordered_cols)] ==
        IF n = 0 THEN df
        ELSE IF ordered_cols[n] \notin Range(F[n - 1].cols)
             THEN AddNaCol(F[n - 1], ordered_cols[n])
             ELSE F[n - 1]
  IN  F[Len(ordered_cols)]

\* _ensure_all_cols (lines 145-149)
EnsureAllCols(df, ordered_cols) ==
  LET F[n \in 0..Len(ordered_cols)] ==
        IF n = 0 THEN df
        ELSE IF ordered_cols[n] \notin Range(F[n - 1].cols)
             THEN AddNaCol(F[n - 1], ordered_cols[n])
             ELSE F[n - 1]
  IN  SelectCols(F[Len(ordered_cols)], ordered_cols)

\* the rows counted, missing or not
CountAll(df, c) ==
  Cardinality({<<r, i>> \in (1..Len(df.rows)) \X (1..Len(df.cols)) : df.cols[i] = c})

\* line 210: df[mom_name].notna().sum()
NotNaCount(df, c) ==
  Cardinality({<<r, i>> \in (1..Len(df.rows)) \X (1..Len(df.cols)) :
                 df.cols[i] = c /\ df.rows[r].vals[i] # NA})

\* The outcome of _align_and_join_with_diagnostics on non-empty tables.
\* mom_me[[mom_name]] raises KeyError when mom has no such column, and
\* join raises ValueError when five has a column of that name.
AlignAndJoin(five, mom, required_cols, mom_name) ==
  LET five_me == Me(five)
      mom_me  == Me(mom)
      n       == OverlapLen(five_me, mom_me)
      joined  == LeftJoin(five_me, SelectCols(mom_me, <<mom_name>>))
      df      == EnsureAllCols(joined, required_cols)
      none    == [status |-> "NoOverlap", five_me |-> five_me, mom_me |-> mom_me,
                  overlap_len |-> n, df |-> NoTable]
  IN  IF n = 0 THEN none                                           \* line 203
      ELSE IF mom_name \notin Range(mom_me.cols)
        THEN [none EXCEPT !.status = "KeyError"]
      ELSE IF mom_name \in Range(five_me.cols)
        THEN [none EXCEPT !.status = "ColumnsOverlap"]
      ELSE IF NotNaCount(df, mom_name) = 0                         \* line 211
        THEN [none EXCEPT !.status = "EmptyMomentum"]
      ELSE [none EXCEPT !.status = "ok", !.df = df]

(* ------------------------------------------------------------------ *)
(* State                                                               *)
(* ------------------------------------------------------------------ *)
VARIABLES
  call,     \* the function being run: "read", "harmonize_mom", "join", "main"
  lines,    \* _read_ff_zip_monthly: the lines of the CSV member (line 40)
  rd,       \* _read_ff_zip_monthly: its outcome
  hdf,      \* _harmonize_mom: the table it is given
  hm,       \* _harmonize_mom: its outcome
  five,     \* _align_and_join_with_diagnostics: the five-factor table
  mom,      \* _align_and_join_with_diagnostics: the momentum table
  jn,       \* _align_and_join_with_diagnostics: its outcome
  pc,       \* the driver's position
  stem,     \* the driver's universe: 1 = us_ff5_mom, 2 = global_exus_ff5_mom
  written,  \* the files written in this run, as <<stem, kind>>
  failure   \* the exception that ended the run, "" while there is none

vars == <<call, lines, rd, hdf, hm, five, mom, jn, pc, stem, written, failure>>

Pending == [status |-> "pending"]

(* ------------------------------------------------------------------ *)
(* Inputs                                                              *)
(* ------------------------------------------------------------------ *)
L_blank == <<>>

L_header == <<",", "M", "o", "m">>

L_jul == <<"1", "9", "6", "3", "0", "7", ",", "1">>

L_aug == <<"1", "9", "6", "3", "0", "8", ",", "2">>

L_jul_dash == <<"1", "9", "6", "3", "-", "0", "7", ",", "3">>

L_month13 == <<"1", "9", "6", "3", "1", "3", ",", "4">>

L_annual == <<"1", "9", "6", "3", ",", "5">>

\* the lines a file is made of: a blank line, a header, monthly rows (two
\* spellings of July 1963, one of August, one of a thirteenth month) and
\* a row of the annual block, which also stands for a footnote
LineSet == {L_blank, L_header, L_jul, L_aug, L_jul_dash, L_month13, L_annual}

\* the lengths of the run of blank lines put after a file's first line:
\* none, and the two lengths around the header window
BlankRuns == {0, HeaderWindow - 2, HeaderWindow - 1}

WithBlankRun(short, n) ==
  IF short = <<>> THEN short
  ELSE <<Head(short)>> \o [i \in 1..n |-> L_blank] \o Tail(short)

Files == {WithBlankRun(short, n) : short \in SeqsUpTo(LineSet, 0, MaxLines), n \in BlankRuns}

\* the labels of the tables handed to _harmonize_mom
LabelSet == {S_Mom, <<"M", "o", "m", " ", " ", " ">>, S_WML, <<"w", "m", "l">>,
             <<"U", "M", "D", "_", "m", "o", "m">>, <<"M", "k", "t", "-", "R", "F">>,
             S_SMB}

\* a one-row table with the given labels; column i holds the number i
OneRow(cols) ==
  [cols |-> cols,
   rows |-> <<[date |-> <<1963, 7, 31>>, vals |-> [i \in 1..Len(cols) |-> Num(i)]]>>]

\* the dates of the tables handed to the aligner/joiner: three month
\* ends and a day inside one of the months
DateSet == {<<1963, 7, 31>>, <<1963, 8, 15>>, <<1963, 8, 31>>, <<1963, 9, 30>>}

\* the column sets of the five-factor table: all six, the three-factor
\* file's, none
FiveColSets == {FiveCols, <<S_MKT_RF, S_SMB, S_HML, S_RF>>, <<>>}

\* row r of a five-factor table holds 10r + i in its i-th column
FiveTable(cols, dates) ==
  [cols |-> cols,
   rows |-> [r \in 1..Len(dates) |->
              [date |-> dates[r], vals |-> [i \in 1..Len(cols) |-> Num(10 * r + i)]]]]

\* row r of a momentum table holds r or is missing
MomTable(dates, miss) ==
  [cols |-> <<S_Mom>>,
   rows |-> [r \in 1..Len(dates) |->
              [date |-> dates[r], vals |-> <<IF r \in miss THEN NA ELSE Num(r)>>]]]

FiveTables == {FiveTable(c, d) : c \in FiveColSets, d \in SeqsUpTo(DateSet, 1, MaxRows)}

\* the momentum tables start a month after the five-factor tables
MomDateSet == DateSet \ {<<1963, 7, 31>>}

MomTables ==
  UNION {{MomTable(d, m) : m \in SUBSET (1..Len(d))} : d \in SeqsUpTo(MomDateSet, 1, MaxRows)}

(* ------------------------------------------------------------------ *)
(* The functions, each applied to an input                             *)
(* ------------------------------------------------------------------ *)
InitRead ==
  /\ call = "read"
  /\ lines \in Files
  /\ rd = Pending
  /\ hdf = NoTable /\ hm = Pending
  /\ five = NoTable /\ mom = NoTable /\ jn = Pending
  /\ pc = "" /\ stem = 0 /\ written = {} /\ failure = ""

InitHarmonize ==
  /\ call = "harmonize_mom"
  /\ hdf \in {OneRow(c) : c \in SeqsUpTo(LabelSet, 1, MaxCols)}
  /\ hm = Pending
  /\ lines = <<>> /\ rd = Pending
  /\ five = NoTable /\ mom = NoTable /\ jn = Pending
  /\ pc = "" /\ stem = 0 /\ written = {} /\ failure = ""

InitJoin ==
  /\ call = "join"
  /\ five \in FiveTables
  /\ mom \in MomTables
  /\ jn = Pending
  /\ lines = <<>> /\ rd = Pending
  /\ hdf = NoTable /\ hm = Pending
  /\ pc = "" /\ stem = 0 /\ written = {} /\ failure = ""

Init == InitRead \/ InitHarmonize \/ InitJoin

\* _read_ff_zip_monthly runs on the lines
ReadMonthly ==
  /\ call = "read" /\ rd = Pending
  /\ rd' = ReadFfZipMonthly(lines)
  /\ UNCHANGED <<call, lines, hdf, hm, five, mom, jn, pc, stem, written, failure>>

\* _harmonize_mom runs on the table
HarmonizeMomentum ==
  /\ call = "harmonize_mom" /\ hm = Pending
  /\ hm' = HarmonizeMom(hdf)
  /\ UNCHANGED <<call, lines, rd, hdf, five, mom, jn, pc, stem, written, failure>>

\* _align_and_join_with_diagnostics runs on the two tables
AlignJoin ==
  /\ call = "join" /\ jn = Pending
  /\ jn' = AlignAndJoin(five, mom, RequiredCols, S_Mom)
  /\ UNCHANGED <<call, lines, rd, hdf, hm, five, mom, pc, stem, written, failure>>

Next == ReadMonthly \/ HarmonizeMomentum \/ AlignJoin

Spec == Init /\ [][Next]_vars

(* ------------------------------------------------------------------ *)
(* The driver (lines 216-245): build_us_ff5_mom, then                  *)
(* build_developed_exus_ff5_mom_as_global_stem                         *)
(* ------------------------------------------------------------------ *)
\* a five-factor file: two columns, two months, then the annual block
T5_two ==
  << <<",", "M", "k", "t", "-", "R", "F", ",", "R", "F">>,
     <<"1", "9", "6", "3", "0", "7", ",", "1", ",", "2">>,
     <<"1", "9", "6", "3", "0", "8", ",", "3", ",", "4">>,
     <<>>,
     <<"1", "9", "6", "3", ",", "9", ",", "9">> >>

\* a five-factor file: a banner, the six columns, two months out of order
T5_six ==
  << <<"n", "o", "t", "e">>,
     <<",", "M", "k", "t", "-", "R", "F", ",", "S", "M", "B", ",", "H", "M", "L", ",", "R", "M", "W", ",", "C", "M", "A", ",", "R", "F">>,
     <<>>,
     <<"1", "9", "6", "3", "0", "9", ",", "1", ",", "2", ",", "3", ",", "4", ",", "5", ",", "6">>,
     <<"1", "9", "6", "3", "0", "8", ",", "1", ",", "2", ",", "3", ",", "4", ",", "5", ",", "6">> >>

\* a file with the annual block only
T5_annual ==
  << <<",", "M", "k", "t", "-", "R", "F", ",", "R", "F">>,
     <<"1", "9", "6", "3", ",", "9", ",", "9">> >>

\* a file that starts with its first monthly row
T5_bare ==
  << <<"1", "9", "6", "3", "0", "7", ",", "1", ",", "2">> >>

\* a file with a thirteenth month
T5_month13 ==
  << <<",", "M", "k", "t", "-", "R", "F", ",", "R", "F">>,
     <<"1", "9", "6", "3", "1", "3", ",", "1", ",", "2">> >>

\* a momentum file
TM_mom ==
  << <<",", "M", "o", "m">>,
     <<"1", "9", "6", "3", "0", "8", ",", "5">>,
     <<"1", "9", "6", "3", "0", "9", ",", "6">> >>

\* a momentum file that labels the column WML
TM_wml ==
  << <<",", "W", "M", "L">>,
     <<"1", "9", "6", "3", "0", "8", ",", "7">> >>

\* a file without a momentum column
TM_smb ==
  << <<",", "S", "M", "B">>,
     <<"1", "9", "6", "3", "0", "8", ",", "5">> >>

\* a momentum file of a later month
TM_late ==
  << <<",", "M", "o", "m">>,
     <<"1", "9", "6", "4", "0", "1", ",", "5">> >>

\* a momentum file with no number in the shared month
TM_na ==
  << <<",", "M", "o", "m">>,
     <<"1", "9", "6", "3", "0", "8", ",", "x">>,
     <<"1", "9", "6", "4", "0", "1", ",", "5">> >>

FiveTexts == {T5_two, T5_six, T5_annual, T5_bare, T5_month13}

MomTexts == {TM_mom, TM_wml, TM_smb, TM_late, TM_na, T5_annual}

\* lines 154, 156, 172: the three files of a stem
Kinds == {"parquet", "csv.gz", "json"}

Stems == {1, 2}

\* an exception nobody catches is carried on: the build goes on to write
Swallow(e) == [pc |-> "write_parquet", failure |-> e]

\* lines 242-245: no function of the file catches an exception, so one
\* raised anywhere ends the run
Raise(e) == [pc |-> "failed", failure |-> e]

InitBuild ==
  /\ call = "main"
  /\ pc = "fetch_five" /\ stem = 1 /\ written = {} /\ failure = ""
  /\ lines = <<>> /\ rd = Pending
  /\ hdf = NoTable /\ hm = Pending
  /\ five = NoTable /\ mom = NoTable /\ jn = Pending

\* lines 34-38: the archive is fetched and its CSV member decoded
FetchOk ==
  /\ pc \in {"fetch_five", "fetch_mom"}
  /\ lines' \in (IF pc = "fetch_five" THEN FiveTexts ELSE MomTexts)
  /\ pc' = (IF pc = "fetch_five" THEN "extract_five" ELSE "extract_mom")
  /\ rd' = Pending
  /\ UNCHANGED <<call, hdf, hm, five, mom, jn, stem, written, failure>>

\* lines 34-35: requests.get or raise_for_status raises
FetchFail ==
  /\ pc \in {"fetch_five", "fetch_mom"}
  /\ pc' = Raise("FetchError").pc
  /\ failure' = Raise("FetchError").failure
  /\ UNCHANGED <<call, lines, rd, hdf, hm, five, mom, jn, stem, written>>

\* lines 40-90: the monthly block is extracted
Extract ==
  /\ pc \in {"extract_five", "extract_mom"}
  /\ rd' = ReadFfZipMonthly(lines)
  /\ IF rd'.status = "ok"
       THEN /\ pc' = (IF pc = "extract_five" THEN "harmonize_five" ELSE "harmonize_mom")
            /\ failure' = failure
       ELSE /\ pc' = Raise(rd'.status).pc
            /\ failure' = Raise(rd'.status).failure
  /\ UNCHANGED <<call, lines, hdf, hm, five, mom, jn, stem, written>>

\* lines 218, 229
HarmonizeFiveStep ==
  /\ pc = "harmonize_five"
  /\ five' = HarmonizeFive(rd.df)
  /\ pc' = "fetch_mom"
  /\ UNCHANGED <<call, lines, rd, hdf, hm, mom, jn, stem, written, failure>>

\* lines 219, 230
HarmonizeMomStep ==
  /\ pc = "harmonize_mom"
  /\ hdf' = rd.df
  /\ hm' = HarmonizeMom(rd.df)
  /\ IF hm'.status = "ok"
       THEN /\ mom' = hm'.df
            /\ pc' = "join"
            /\ failure' = failure
       ELSE /\ mom' = mom
            /\ pc' = Raise(hm'.status).pc
            /\ failure' = Raise(hm'.status).failure
  /\ UNCHANGED <<call, lines, rd, five, jn, stem, written>>

\* lines 221-223, 232-234
JoinStep ==
  /\ pc = "join"
  /\ jn' = AlignAndJoin(five, mom, RequiredCols, S_Mom)
  /\ IF jn'.status = "ok"
       THEN /\ pc' = "write_parquet"
            /\ failure' = failure
       ELSE /\ pc' = Raise(jn'.status).pc
            /\ failure' = Raise(jn'.status).failure
  /\ UNCHANGED <<call, lines, rd, hdf, hm, five, mom, stem, written>>

\* line 154
WriteParquet ==
  /\ pc = "write_parquet"
  /\ written' = written \cup {<<stem, "parquet">>}
  /\ pc' = "write_csv"
  /\ UNCHANGED <<call, lines, rd, hdf, hm, five, mom, jn, stem, failure>>

\* line 156
WriteCsv ==
  /\ pc = "write_csv"
  /\ written' = written \cup {<<stem, "csv.gz">>}
  /\ pc' = "write_meta"
  /\ UNCHANGED <<call, lines, rd, hdf, hm, five, mom, jn, stem, failure>>

\* line 172, and the return to the driver: the second build starts with
\* its own locals (lines 243-244), the run ends after it (line 245)
WriteMeta ==
  /\ pc = "write_meta"
  /\ written' = written \cup {<<stem, "json">>}
  /\ IF stem = 1
       THEN /\ stem' = 2
            /\ pc' = "fetch_five"
            /\ lines' = <<>> /\ rd' = Pending
            /\ hdf' = NoTable /\ hm' = Pending
            /\ five' = NoTable /\ mom' = NoTable /\ jn' = Pending
       ELSE /\ pc' = "done"
            /\ UNCHANGED <<stem, lines, rd, hdf, hm, five, mom, jn>>
  /\ UNCHANGED <<call, failure>>

NextBuild ==
  \/ FetchOk \/ FetchFail \/ Extract \/ HarmonizeFiveStep \/ HarmonizeMomStep
  \/ JoinStep \/ WriteParquet \/ WriteCsv \/ WriteMeta

SpecBuild == InitBuild /\ [][NextBuild]_vars

\* the steps of the current build before the writer have all succeeded
BuiltSoFar ==
  /\ rd # Pending /\ rd.status = "ok"
  /\ hm # Pending /\ hm.status = "ok"
  /\ jn # Pending /\ jn.status = "ok"

\* C9: a universe's artifacts are written only after its fetches,
\* extractions, harmonizations and join have all succeeded; once an error
\* occurs the run stops for good with none of that universe's artifacts
\* written; the run reaches its successful end only with all artifacts of
\* both universes written.
C9_NoPartialArtifacts ==
  /\ \A f \in written :
       \/ f[1] < stem
       \/ f[1] = stem /\ failure = "" /\ BuiltSoFar
                      /\ pc \in {"write_csv", "write_meta", "done"}
  /\ \A u \in Stems : u < stem => \A k \in Kinds : <<u, k>> \in written
  /\ failure # "" =>
       /\ pc = "failed"
       /\ ~ENABLED NextBuild
       /\ \A k \in Kinds : <<stem, k>> \notin written
  /\ pc = "failed" => failure # ""
  /\ pc = "done" => failure = "" /\ written = Stems \X Kinds

\* the second universe's join fails for an empty momentum column after the
\* first universe was written
C9_Witness ==
  /\ failure = "EmptyMomentum" /\ stem = 2
  /\ written = {1} \X Kinds

(* ------------------------------------------------------------------ *)
(* Block Extractor                                                     *)
(* ------------------------------------------------------------------ *)
Matches(i) == YyyymmMatch(FirstField(lines[i]))

\* the first non-blank line below line h, so that the lines between the
\* two are blank; 0 when there is none
NextNonBlank(h) ==
  LET below == {j \in (h + 1)..Len(lines) : IsNonBlank(lines[j])}
  IN  IF below = {} THEN 0 ELSE SetMin(below)

\* lines s..e have a matching first field, and line e+1 is blank or has a
\* first field that does not match
RunFromTo(s, e) ==
  /\ s <= e /\ e < Len(lines)
  /\ \A i \in s..e : Matches(i)
  /\ ~IsNonBlank(lines[e + 1]) \/ ~Matches(e + 1)

Selected(h, s, e) ==
  /\ rd.first_row = s
  /\ rd.header_idx = h
  /\ rd.block = <<lines[h]>> \o SubSeq(lines, s, e)

\* C1 as stated: for every file that holds a non-blank header line, then
\* blank lines, then a run of lines whose first field matches the month
\* token, then a blank or non-matching line, the extractor selects exactly
\* the header and the run.
C1_AnyBlockSelected ==
  rd # Pending =>
    \A h \in 1..Len(lines) : IsNonBlank(lines[h]) =>
      \A s \in {NextNonBlank(h)} \ {0} :
        \A e \in s..(Len(lines) - 1) :
          RunFromTo(s, e) => Selected(h, s, e)

\* C1 amended: the same, for the block that starts at the first line of
\* the file whose first field matches (so neither the header nor a line
\* above it matches) and whose header is at most HeaderWindow - 1 lines
\* above that line (at most HeaderWindow - 2 blank lines in between).
C1_FirstBlockSelected ==
  rd # Pending =>
    \A h \in 1..Len(lines) : IsNonBlank(lines[h]) =>
      \A s \in {NextNonBlank(h)} \ {0} :
        \A e \in s..(Len(lines) - 1) :
          ( /\ RunFromTo(s, e)
            /\ s - h <= HeaderWindow - 1
            /\ \A i \in 1..(s - 1) : ~Matches(i) )
          => Selected(h, s, e)

\* a header, the longest run of blank lines the window allows, two
\* monthly rows and a terminating line, extracted
C1_Witness ==
  /\ rd # Pending /\ rd.status = "ok"
  /\ \E h \in 1..Len(lines) :
       /\ IsNonBlank(lines[h])
       /\ NextNonBlank(h) = h + HeaderWindow - 1
       /\ RunFromTo(h + HeaderWindow - 1, h + HeaderWindow)
       /\ \A i \in 1..(h + HeaderWindow - 2) : ~Matches(i)
       /\ Len(rd.block) = 3

\* C2: when no line's first field matches the month-token pattern (as in
\* a file that holds only annual rows), extraction fails with
\* BlockNotFound and returns no table.
C2_BlockNotFound ==
  rd # Pending =>
    ( (\A i \in 1..Len(lines) : ~Matches(i))
      => rd.status = "BlockNotFound" /\ rd.df = NoTable )

\* a file of a header and annual rows only, rejected
C2_Witness ==
  /\ rd # Pending /\ rd.status = "BlockNotFound"
  /\ Len(lines) >= 2 /\ lines[1] = L_header
  /\ \A i \in 2..Len(lines) : lines[i] = L_annual

\* the first field denotes a calendar month: YYYYMM, YYYY-MM, YYYY/MM or
\* YYYY MM with MM in 01..12
DenotesMonth(tok) ==
  /\ StrictYm(Strip(tok))
  /\ DigitsVal(SubSeq(Strip(tok), Len(Strip(tok)) - 1, Len(Strip(tok)))) \in 1..12

\* C10 as stated: a row of the monthly block whose first field matches
\* the month token but denotes no calendar month is dropped; extraction
\* succeeds and returns the remaining rows.
C10_BadMonthsDropped ==
  (rd # Pending /\ rd.status \notin {"BlockNotFound", "HeaderNotFound"}) =>
    LET run  == MonthlyRun(lines, FirstRow(lines))
        good == SelectSeq(run, LAMBDA ln : DenotesMonth(Split(ln, ",")[1]))
    IN  /\ rd.status = "ok"
        /\ {rd.df.rows[k].date : k \in 1..Len(rd.df.rows)}
             = {ToMe(Split(good[i], ",")[1]) : i \in 1..Len(good)}

(* ------------------------------------------------------------------ *)
(* Column Harmonizer                                                   *)
(* ------------------------------------------------------------------ *)
\* the labels that are candidates, by the three rules
IsExactMom(c) == Strip(c) = S_Mom

HasMom(c) == Contains(Lower(Strip(c)), S_mom)

IsWml(c) == Lower(Strip(c)) = Lower(S_WML)

\* the column the priority picks; 0 when no label is a candidate
Picked(cols) ==
  LET first(P(_)) == SetMin({i \in 1..Len(cols) : P(cols[i])})
      some(P(_))  == \E i \in 1..Len(cols) : P(cols[i])
  IN  IF some(IsExactMom) THEN first(IsExactMom)
      ELSE IF some(HasMom) THEN first(HasMom)
      ELSE IF some(IsWml) THEN first(IsWml)
      ELSE 0

\* C3 as stated: the harmonizer fails with MomentumColumnNotFound exactly
\* when no label is a candidate, and otherwise returns the single column
\* Mom holding the values of the first column by the priority (a) trimmed
\* label "Mom", (b) lowercased trimmed label contains "mom", (c) trimmed
\* label "WML" in any case; so it succeeds for "Mom", "Mom   ", "WML",
\* "wml" and "UMD_mom".
C3_MomentumResolved ==
  hm # Pending =>
    LET k == Picked(hdf.cols)
    IN  IF k = 0 THEN hm.status = "MomentumColumnNotFound"
        ELSE /\ hm.status = "ok"
             /\ hm.df.cols = <<S_Mom>>
             /\ \A r \in 1..Len(hdf.rows) : hm.df.rows[r].vals = <<hdf.rows[r].vals[k]>>

(* ------------------------------------------------------------------ *)
(* Aligner/Joiner                                                      *)
(* ------------------------------------------------------------------ *)
MonthEnds(df) == {MonthEnd(df.rows[i].date) : i \in 1..Len(df.rows)}

\* the last row of df that falls in the month ending on d
LastAt(df, d) == SetMax({i \in 1..Len(df.rows) : MonthEnd(df.rows[i].date) = d})

\* the cell of row r in the column labelled c
Cell(df, r, c) == df.rows[r].vals[CHOOSE i \in 1..Len(df.cols) : df.cols[i] = c]

\* the momentum table's value in the month ending on d, NA without one
MomAt(d) == IF d \in MonthEnds(mom) THEN Cell(mom, LastAt(mom, d), S_Mom) ELSE NA

StrictlyAscending(rows) ==
  \A i \in 1..(Len(rows) - 1) : DateLT(rows[i].date, rows[i + 1].date)

\* C4: when the join succeeds, the output has one row per month-end date
\* of the five-factor table and no other; its Mom is the momentum table's
\* value at that date, missing when the momentum table has no such date;
\* the five-factor values are carried over unchanged.
C4_LeftJoin ==
  (jn # Pending /\ jn.status = "ok") =>
    /\ Dates(jn.df) = MonthEnds(five)
    /\ Len(jn.df.rows) = Cardinality(MonthEnds(five))
    /\ \A k \in 1..Len(jn.df.rows) :
         LET d == jn.df.rows[k].date
         IN  /\ Cell(jn.df, k, S_Mom) = MomAt(d)
             /\ \A c \in Range(five.cols) : Cell(jn.df, k, c) = Cell(five, LastAt(five, d), c)

\* a join of two five-factor months with a momentum table that covers
\* only one of them: one Mom is missing, one is not
C4_Witness ==
  /\ jn # Pending /\ jn.status = "ok"
  /\ Len(jn.df.rows) = 2
  /\ Cell(jn.df, 1, S_Mom) = NA
  /\ Cell(jn.df, 2, S_Mom) # NA
  /\ five.cols = FiveCols

\* C5: the join fails with NoOverlap, and returns no table, exactly when
\* the two month-end date sets share no date.
C5_NoOverlap ==
  jn # Pending =>
    /\ jn.status = "NoOverlap" <=> MonthEnds(five) \cap MonthEnds(mom) = {}
    /\ jn.status = "NoOverlap" => jn.df = NoTable

\* tables of different months, rejected
C5_Witness ==
  /\ jn # Pending /\ jn.status = "NoOverlap"
  /\ Len(five.rows) = 2 /\ Len(mom.rows) = 2

\* C6: for tables that share a date, the join fails with EmptyMomentum
\* exactly when Mom is missing on every five-factor date; a table is
\* returned only with a non-missing Mom in some row.
C6_EmptyMomentum ==
  (jn # Pending /\ MonthEnds(five) \cap MonthEnds(mom) # {}) =>
    /\ jn.status = "EmptyMomentum" <=> \A d \in MonthEnds(five) : MomAt(d) = NA
    /\ jn.status = "ok" => \E k \in 1..Len(jn.df.rows) : Cell(jn.df, k, S_Mom) # NA
    /\ jn.status # "ok" => jn.df = NoTable

\* a momentum table that is missing on the shared date and has a value on
\* a date the five-factor table lacks, rejected
C6_Witness ==
  /\ jn # Pending /\ jn.status = "EmptyMomentum"
  /\ \E i \in 1..Len(mom.rows) : mom.rows[i].vals # <<NA>>

\* C7: every table the join returns has exactly the columns MKT_RF, SMB,
\* HML, RMW, CMA, Mom, RF in that order; a column neither input carries
\* is missing in every row; the join fails only with NoOverlap or
\* EmptyMomentum, whatever columns the five-factor table carries.
C7_SchemaComplete ==
  jn # Pending =>
    /\ jn.status \in {"ok", "NoOverlap", "EmptyMomentum"}
    /\ jn.status = "ok" =>
         /\ jn.df.cols = RequiredCols
         /\ \A k \in 1..Len(jn.df.rows) :
              /\ Len(jn.df.rows[k].vals) = Len(RequiredCols)
              /\ \A i \in 1..Len(RequiredCols) :
                   RequiredCols[i] \notin (Range(five.cols) \cup Range(mom.cols))
                     => jn.df.rows[k].vals[i] = NA

\* a five-factor table without RMW and CMA, joined
C7_Witness ==
  /\ jn # Pending /\ jn.status = "ok"
  /\ five.cols = <<S_MKT_RF, S_SMB, S_HML, S_RF>>
  /\ Cell(jn.df, 1, S_RMW) = NA /\ Cell(jn.df, 1, S_RF) # NA

\* C8: every table the extractor or the join returns has its rows in
\* strictly ascending date order (so no date twice), and the row it keeps
\* for a date is the last input row that falls on that month-end date.
C8_UniqueAscending ==
  /\ (rd # Pending /\ rd.status = "ok") =>
       LET in == [i \in 1..(Len(rd.block) - 1) |-> ParseRow(rd.block[i + 1])]
       IN  /\ StrictlyAscending(rd.df.rows)
           /\ Dates(rd.df) = {in[i].date : i \in 1..Len(in)}
           /\ \A k \in 1..Len(rd.df.rows) :
                rd.df.rows[k] = in[SetMax({i \in 1..Len(in) : in[i].date = rd.df.rows[k].date})]
  /\ (jn # Pending /\ jn.status = "ok") =>
       /\ StrictlyAscending(jn.df.rows)
       /\ \A k \in 1..Len(jn.df.rows) :
            LET d == jn.df.rows[k].date
            IN  /\ d \in MonthEnds(five)
                /\ Cell(jn.df, k, S_Mom) = MomAt(d)
                /\ \A c \in Range(five.cols) :
                     Cell(jn.df, k, c) = Cell(five, LastAt(five, d), c)

\* August before two rows of July, extracted: July's second row is kept
\* and comes first
C8_Witness ==
  /\ rd # Pending /\ rd.status = "ok"
  /\ rd.block = <<L_header, L_aug, L_jul, L_jul_dash>>
  /\ Len(rd.df.rows) = 2
  /\ rd.df.rows[1] = ParseRow(L_jul_dash)

====
